---- MODULE Spec2Model ----
(***************************************************************************)
(* Model of work_with_phone_numbers:                                       *)
(*   sort_random_phone_numbers.py      external merge sort of a text file  *)
(*   generate_random_phone_numbers.py  partition / shuffle / concatenate   *)
(*   utils.py                          chunked, the lazy batcher           *)
(* Files are sequences of character codes; a line keeps its newline, as    *)
(* Python's file iteration and readlines do.                               *)
(***************************************************************************)
EXTENDS Integers, Sequences, FiniteSets, TLC

VARIABLES
    pc,                  \* position of the main flow
    fs,                  \* the filesystem: file name -> content
    opened,              \* names of the files the run has opened or created
    consumed,            \* names of the files a reader has read to the end
    err,                 \* the exception that ended the run, or "none"
    lines_per_chunk,     \* sort: LINES_PER_CHUNK
    lines,               \* sort: the line buffer of the split loop
    i,                   \* sort: enumerate counter of the split loop
    rest,                \* sort: lines the source iterator has not yielded yet
    chunk_file_names,    \* sort: names of the chunks written so far
    chunks,              \* sort: the chunk handles merge_files holds open
    start_number,        \* generate: START_NUMBER
    stop_number,         \* generate: STOP_NUMBER
    split_file_number,   \* generate: SPLIT_FILE_NUMBER
    number,              \* generate: loop variable of the emitter
    files,               \* generate: the open raw file handles
    shuffled_file_names, \* generate: result list of shuffle_files
    fi,                  \* generate: position of the loop over file names
    workers,             \* generate: live worker processes of the pool
    tasks,               \* generate: pool tasks, file name -> task record
    iterable,            \* chunked: the input sequence
    it_pos,              \* chunked: elements the shared iterator has consumed
    chunk_size,          \* chunked: batch size
    batches,             \* chunked: the batches yielded so far
    exhausted,           \* chunked: the sentinel has been seen
    stops                \* chunked: StopIteration raised so far (capped)

sharedVars == <<pc, fs, opened, consumed, err>>
sortVars == <<lines_per_chunk, lines, i, rest, chunk_file_names, chunks>>
genVars == <<start_number, stop_number, split_file_number, number, files,
             shuffled_file_names, fi, workers, tasks>>
chunkedVars == <<iterable, it_pos, chunk_size, batches, exhausted, stops>>
vars == <<sharedVars, sortVars, genVars, chunkedVars>>

----------------------------------------------------------------------------
\* Bounds of the model.
MaxSourceLen == 6
MaxChunkLines == 3
MinStart == 8
MaxStop == 12
MaxSplit == 3
MaxInputLen == 4
MaxBatch == 3
MaxStops == 2

----------------------------------------------------------------------------
\* Character codes.
NL == 10
PLUS == 43
MINUS == 45
ZERO == 48

\* Characters a source file to sort is drawn from: newline, "1", "2".
SourceAlphabet == {NL, ZERO + 1, ZERO + 2}

FILE_NAME_WITH_NUMBERS_TO_SORT == "phone_numbers_shuffled.txt"
RESULTING_FILE_NAME == "sorted_phone_numbers.txt"
FINAL_FILE_NAME == "phone_numbers_shuffled.txt"

NoFiles == [n \in {} |-> <<>>]

Range(s) == {s[k] : k \in DOMAIN s}

\* Position of the first newline of s, 0 when there is none.
FirstNL(s) ==
    IF \E k \in DOMAIN s : s[k] = NL
    THEN CHOOSE k \in DOMAIN s : s[k] = NL /\ \A j \in 1..(k - 1) : s[j] # NL
    ELSE 0

\* Iterating a text file, and readlines(): each line with its newline; the
\* last line has none when the file does not end in one.
RECURSIVE readlines(_)
readlines(s) ==
    IF s = <<>> THEN <<>>
    ELSE LET k == FirstNL(s)
         IN IF k = 0 THEN <<s>>
            ELSE <<SubSeq(s, 1, k)>> \o readlines(SubSeq(s, k + 1, Len(s)))

\* file.writelines(ls): the strings one after the other, nothing added.
RECURSIVE writelines(_)
writelines(ls) ==
    IF ls = <<>> THEN <<>> ELSE Head(ls) \o writelines(Tail(ls))

\* Python's str "<": lexicographic by character code, a proper prefix first.
RECURSIVE StrLess(_, _)
StrLess(a, b) ==
    IF b = <<>> THEN FALSE
    ELSE IF a = <<>> THEN TRUE
    ELSE IF Head(a) # Head(b) THEN Head(a) < Head(b)
    ELSE StrLess(Tail(a), Tail(b))

\* Insert x after every element that is not greater than it.
RECURSIVE Insert(_, _)
Insert(x, s) ==
    IF s = <<>> THEN <<x>>
    ELSE IF StrLess(x, Head(s)) THEN <<x>> \o s
    ELSE <<Head(s)>> \o Insert(x, Tail(s))

\* list.sort() of strings: ascending and stable.
RECURSIVE sort(_)
sort(ls) ==
    IF ls = <<>> THEN <<>>
    ELSE Insert(ls[Len(ls)], sort(SubSeq(ls, 1, Len(ls) - 1)))

\* heapq.merge(*its): repeatedly the smallest head, the earliest iterator
\* first among equal heads.
RECURSIVE merge(_)
merge(its) ==
    LET live == {k \in DOMAIN its : its[k] # <<>>}
    IN IF live = {} THEN <<>>
       ELSE LET k == CHOOSE a \in live : \A b \in live :
                        /\ ~StrLess(its[b][1], its[a][1])
                        /\ (b < a => StrLess(its[a][1], its[b][1]))
            IN <<its[k][1]>> \o merge([its EXCEPT ![k] = Tail(its[k])])

\* Python's a % b for b # 0: the result has the sign of b.
PyMod(a, b) == IF b > 0 THEN a % b ELSE -((-a) % (-b))

\* int(a / b) where b divides a: the exact quotient.
IntDiv(a, b) == IF b > 0 THEN a \div b ELSE -(a \div (-b))

\* CHUNK_NAME_TEMPLATE.format(file_part)
ChunkName(file_part) == "chunk_" \o ToString(file_part) \o ".txt"

\* open(name, "w"): the file exists and is empty.
Create(f, name) == (name :> <<>>) @@ f

\* handle.write(text) on a file opened for writing.
Write(f, name, text) == [f EXCEPT ![name] = @ \o text]

\* The last name of the list is left alone.
RemoveButLast(f, names) ==
    [n \in (DOMAIN f) \ {names[k] : k \in 1..(Len(names) - 1)} |-> f[n]]

\* os.remove of every name of the list.
Remove(f, names) == [n \in (DOMAIN f) \ Range(names) |-> f[n]]

----------------------------------------------------------------------------
\* Values of a pipeline's variables while another program runs.
SortIdle ==
    /\ lines_per_chunk = 1 /\ lines = <<>> /\ i = 0 /\ rest = <<>>
    /\ chunk_file_names = <<>> /\ chunks = <<>>

GenIdle ==
    /\ start_number = 0 /\ stop_number = 0 /\ split_file_number = 1
    /\ number = 0 /\ files = <<>> /\ shuffled_file_names = <<>> /\ fi = 0
    /\ workers = {} /\ tasks = NoFiles

ChunkedIdle ==
    /\ iterable = <<>> /\ it_pos = 0 /\ chunk_size = 1 /\ batches = <<>>
    /\ exhausted = FALSE /\ stops = 0

----------------------------------------------------------------------------
\* sort_random_phone_numbers.py

Sources == UNION {[1..n -> SourceAlphabet] : n \in 0..MaxSourceLen}

InitSort ==
    /\ pc = "split_open"
    /\ \E s \in Sources : fs = (FILE_NAME_WITH_NUMBERS_TO_SORT :> s)
    /\ opened = {} /\ consumed = {} /\ err = "none"
    /\ lines_per_chunk \in -1..MaxChunkLines
    /\ lines = <<>> /\ i = 0 /\ rest = <<>>
    /\ chunk_file_names = <<>> /\ chunks = <<>>
    /\ GenIdle /\ ChunkedIdle

\* Lines 52-55: open the source and start iterating it.
SplitOpen ==
    /\ pc = "split_open"
    /\ opened' = opened \cup {FILE_NAME_WITH_NUMBERS_TO_SORT}
    /\ rest' = readlines(fs[FILE_NAME_WITH_NUMBERS_TO_SORT])
    /\ lines' = <<>> /\ i' = 0 /\ chunk_file_names' = <<>>
    /\ pc' = "split_iter"
    /\ UNCHANGED <<fs, consumed, err, lines_per_chunk, chunks>>
    /\ UNCHANGED <<genVars, chunkedVars>>

\* Lines 56-57: the next line of the source enters the buffer.
SplitAppend ==
    /\ pc = "split_iter" /\ rest # <<>>
    /\ lines' = Append(lines, Head(rest))
    /\ rest' = Tail(rest)
    /\ i' = i + 1
    /\ pc' = "split_check"
    /\ UNCHANGED <<fs, opened, consumed, err, lines_per_chunk,
                   chunk_file_names, chunks>>
    /\ UNCHANGED <<genVars, chunkedVars>>

\* Line 58: i % lines_per_chunk, a ZeroDivisionError when the divisor is 0.
SplitCheck ==
    /\ pc = "split_check"
    /\ IF lines_per_chunk = 0
       THEN pc' = "sort_error" /\ err' = "ZeroDivisionError"
       ELSE /\ err' = err
            /\ pc' = IF i > 0 /\ PyMod(i, lines_per_chunk) = 0
                     THEN "split_flush" ELSE "split_iter"
    /\ UNCHANGED <<fs, opened, consumed>>
    /\ UNCHANGED <<sortVars, genVars, chunkedVars>>

\* The buffer keeps its lines.
KeepLines(buf) == buf

\* Line 67: lines[:] = []
ClearLines(buf) == <<>>

\* Lines 59-67: sort the buffer, write it as a chunk, empty the buffer.

SplitFlush ==
    /\ pc = "split_flush"
    /\ LET file_name == ChunkName(IntDiv(i, lines_per_chunk))
       IN /\ chunk_file_names' = Append(chunk_file_names, file_name)
          /\ fs' = Write(Create(fs, file_name), file_name, writelines(sort(lines)))
          /\ opened' = opened \cup {file_name}
    /\ lines' = ClearLines(lines)
    /\ pc' = "split_iter"
    /\ UNCHANGED <<consumed, err, lines_per_chunk, i, rest, chunks>>
    /\ UNCHANGED <<genVars, chunkedVars>>

\* Lines 56, 69: the source is exhausted; the function returns the names.
SplitReturn ==
    /\ pc = "split_iter" /\ rest = <<>>
    /\ consumed' = consumed \cup {FILE_NAME_WITH_NUMBERS_TO_SORT}
    /\ pc' = "merge_open"
    /\ UNCHANGED <<fs, opened, err>>
    /\ UNCHANGED <<sortVars, genVars, chunkedVars>>

\* Line 38: merge_files opens every chunk for reading.
MergeOpen ==
    /\ pc = "merge_open"
    /\ chunks' = chunk_file_names
    /\ opened' = opened \cup Range(chunk_file_names)
    /\ pc' = "merge_write"
    /\ UNCHANGED <<fs, consumed, err, lines_per_chunk, lines, i, rest,
                   chunk_file_names>>
    /\ UNCHANGED <<genVars, chunkedVars>>

\* Lines 41-42: the merged lines of all chunks go to the resulting file.
MergeWrite ==
    /\ pc = "merge_write"
    /\ fs' = Write(Create(fs, RESULTING_FILE_NAME), RESULTING_FILE_NAME,
                   writelines(merge([k \in DOMAIN chunks |-> readlines(fs[chunks[k]])])))
    /\ opened' = opened \cup {RESULTING_FILE_NAME}
    /\ consumed' = consumed \cup Range(chunks)
    /\ pc' = "merge_close"
    /\ UNCHANGED <<err>>
    /\ UNCHANGED <<sortVars, genVars, chunkedVars>>

\* Line 44: the chunk handles are closed.
MergeClose ==
    /\ pc = "merge_close"
    /\ chunks' = <<>>
    /\ pc' = "remove_chunks"
    /\ UNCHANGED <<fs, opened, consumed, err, lines_per_chunk, lines, i, rest,
                   chunk_file_names>>
    /\ UNCHANGED <<genVars, chunkedVars>>

\* Line 85: main removes every chunk.
RemoveChunks ==
    /\ pc = "remove_chunks"
    /\ fs' = Remove(fs, chunk_file_names)
    /\ pc' = "sort_done"
    /\ UNCHANGED <<opened, consumed, err>>
    /\ UNCHANGED <<sortVars, genVars, chunkedVars>>

NextSort ==
    \/ SplitOpen
    \/ SplitAppend
    \/ SplitCheck
    \/ SplitFlush
    \/ SplitReturn
    \/ MergeOpen
    \/ MergeWrite
    \/ MergeClose
    \/ RemoveChunks

SpecSort == InitSort /\ [][NextSort]_vars

----------------------------------------------------------------------------
\* generate_random_phone_numbers.py

\* str(n): the decimal digits, "-" first for a negative number.
RECURSIVE Digits(_)
Digits(n) ==
    IF n < 10 THEN <<ZERO + n>> ELSE Digits(n \div 10) \o <<ZERO + (n % 10)>>

Str(n) == IF n < 0 THEN <<MINUS>> \o Digits(-n) ELSE Digits(n)

\* Line 54: f"+{number}\n"
Record(n) == <<PLUS>> \o Str(n) \o <<NL>>

\* Line 27: RAW_FILE_NAMES, empty when SPLIT_FILE_NUMBER < 1.
RAW_FILE_NAMES ==
    IF split_file_number < 1 THEN <<>>
    ELSE [k \in 1..split_file_number |-> "file_" \o ToString(k) \o ".txt"]

\* Line 53: the index of the handle a number is written to (from 0).
FileNumberNext(n, split) == (n + 1) % split

FileNumber(n, split) == n % split

\* Line 71: f"shuffled_{file_name}"
ShuffledName(file_name) == "shuffled_" \o file_name

\* Orders that draw every position independently, repeats allowed.
ShufflesWithRepeats(ls) ==
    {[j \in DOMAIN ls |-> ls[p[j]]] : p \in [DOMAIN ls -> DOMAIN ls]}

\* Line 67: random.shuffle(lines) leaves the list in any of its orders.
Shuffles(ls) == {[j \in DOMAIN ls |-> ls[p[j]]] : p \in Permutations(DOMAIN ls)}

\* Line 90: multiprocessing.Pool(processes=1)
Processes == 1

\* A result is ready as soon as its task has started.
ResultReadyEarly(t) == t.state \in {"shuffled", "finished"}

\* Line 95: result.get() returns once the task has returned.
ResultReady(t) == t.state = "finished"

InitGen ==
    /\ pc = "gen_open"
    /\ fs = NoFiles /\ opened = {} /\ consumed = {} /\ err = "none"
    /\ start_number \in MinStart..MaxStop
    /\ stop_number \in MinStart..MaxStop
    /\ split_file_number \in -1..MaxSplit
    /\ number = 0 /\ files = <<>> /\ shuffled_file_names = <<>> /\ fi = 0
    /\ workers = {} /\ tasks = NoFiles
    /\ SortIdle /\ ChunkedIdle

\* Line 40: every raw file is opened for writing.
GenOpen ==
    /\ pc = "gen_open"
    /\ files' = RAW_FILE_NAMES
    /\ fs' = [n \in (DOMAIN fs) \cup Range(RAW_FILE_NAMES) |->
                 IF n \in Range(RAW_FILE_NAMES) THEN <<>> ELSE fs[n]]
    /\ opened' = opened \cup Range(RAW_FILE_NAMES)
    /\ number' = start_number
    /\ pc' = "gen_loop"
    /\ UNCHANGED <<consumed, err, start_number, stop_number, split_file_number,
                   shuffled_file_names, fi, workers, tasks>>
    /\ UNCHANGED <<sortVars, chunkedVars>>

\* Lines 45-54: one number of the range goes to the file of its remainder.
\* A zero divisor raises ZeroDivisionError; with a negative one the list of
\* handles is empty and indexing it raises IndexError.
GenWrite ==
    /\ pc = "gen_loop" /\ number < stop_number
    /\ IF split_file_number = 0
       THEN pc' = "gen_error" /\ err' = "ZeroDivisionError"
                /\ UNCHANGED <<fs, number>>
       ELSE IF split_file_number < 0
       THEN pc' = "gen_error" /\ err' = "IndexError" /\ UNCHANGED <<fs, number>>
       ELSE /\ fs' = Write(fs, files[FileNumber(number, split_file_number) + 1],
                           Record(number))
            /\ number' = number + 1
            /\ UNCHANGED <<pc, err>>
    /\ UNCHANGED <<opened, consumed, start_number, stop_number,
                   split_file_number, files, shuffled_file_names, fi, workers,
                   tasks>>
    /\ UNCHANGED <<sortVars, chunkedVars>>

\* Line 56: the range is done; every raw file is closed.
GenClose ==
    /\ pc = "gen_loop" /\ number >= stop_number
    /\ files' = <<>>
    /\ pc' = "pool"
    /\ UNCHANGED <<fs, opened, consumed, err, start_number, stop_number,
                   split_file_number, number, shuffled_file_names, fi, workers,
                   tasks>>
    /\ UNCHANGED <<sortVars, chunkedVars>>

\* Lines 88-90: shuffle_files creates the pool, which starts its workers.
PoolCreate ==
    /\ pc = "pool"
    /\ shuffled_file_names' = <<>>
    /\ workers' = 1..Processes
    /\ fi' = 1
    /\ pc' = "submit"
    /\ UNCHANGED <<fs, opened, consumed, err, start_number, stop_number,
                   split_file_number, number, files, tasks>>
    /\ UNCHANGED <<sortVars, chunkedVars>>

\* Line 94: pool.apply_async(shuffle_one_file, (file_name,))
ApplyAsync ==
    /\ pc = "submit" /\ fi <= Len(RAW_FILE_NAMES)
    /\ tasks' = (RAW_FILE_NAMES[fi] :>
                    [state |-> "queued", worker |-> 0, lines |-> <<>>,
                     result |-> ""]) @@ tasks
    /\ pc' = "get"
    /\ UNCHANGED <<fs, opened, consumed, err, start_number, stop_number,
                   split_file_number, number, files, shuffled_file_names, fi,
                   workers>>
    /\ UNCHANGED <<sortVars, chunkedVars>>

\* A worker of the pool is free when it is not in the middle of a task.
Idle(w) == \A n \in DOMAIN tasks :
               ~(tasks[n].state = "shuffled" /\ tasks[n].worker = w)

\* Lines 65-67, in a free worker of the pool: read the raw file, shuffle.
WorkerShuffle ==
    /\ \E n \in DOMAIN tasks, w \in workers :
        /\ tasks[n].state = "queued" /\ Idle(w)
        /\ \E ls \in Shuffles(readlines(fs[n])) :
              tasks' = [tasks EXCEPT ![n] = [state |-> "shuffled", worker |-> w,
                                             lines |-> ls, result |-> ""]]
        /\ opened' = opened \cup {n}
        /\ consumed' = consumed \cup {n}
    /\ UNCHANGED <<pc, fs, err, start_number, stop_number, split_file_number,
                   number, files, shuffled_file_names, fi, workers>>
    /\ UNCHANGED <<sortVars, chunkedVars>>

\* Lines 71-76, in the same worker: write the shuffled file, return its name.
WorkerWrite ==
    /\ \E n \in DOMAIN tasks :
        /\ tasks[n].state = "shuffled"
        /\ fs' = Write(Create(fs, ShuffledName(n)), ShuffledName(n),
                       writelines(tasks[n].lines))
        /\ opened' = opened \cup {ShuffledName(n)}
        /\ tasks' = [tasks EXCEPT ![n] = [state |-> "finished",
                                          worker |-> tasks[n].worker,
                                          lines |-> <<>>,
                                          result |-> ShuffledName(n)]]
    /\ UNCHANGED <<pc, consumed, err, start_number, stop_number,
                   split_file_number, number, files, shuffled_file_names, fi,
                   workers>>
    /\ UNCHANGED <<sortVars, chunkedVars>>

\* Line 95: the main process waits for the result and appends it.
ResultGet ==
    /\ pc = "get" /\ ResultReady(tasks[RAW_FILE_NAMES[fi]])
    /\ shuffled_file_names' =
           Append(shuffled_file_names, tasks[RAW_FILE_NAMES[fi]].result)
    /\ fi' = fi + 1
    /\ pc' = "submit"
    /\ UNCHANGED <<fs, opened, consumed, err, start_number, stop_number,
                   split_file_number, number, files, workers, tasks>>
    /\ UNCHANGED <<sortVars, chunkedVars>>

\* Lines 97-98: the loop is over; every raw file is removed.
RemoveRaw ==
    /\ pc = "submit" /\ fi > Len(RAW_FILE_NAMES)
    /\ fs' = Remove(fs, RAW_FILE_NAMES)
    /\ pc' = "final_open"
    /\ UNCHANGED <<opened, consumed, err>>
    /\ UNCHANGED <<genVars, sortVars, chunkedVars>>

\* Line 107: merge_shuffled_files opens the final file for writing.
FinalOpen ==
    /\ pc = "final_open"
    /\ fs' = Create(fs, FINAL_FILE_NAME)
    /\ opened' = opened \cup {FINAL_FILE_NAME}
    /\ fi' = 1
    /\ pc' = "final_loop"
    /\ UNCHANGED <<consumed, err, start_number, stop_number, split_file_number,
                   number, files, shuffled_file_names, workers, tasks>>
    /\ UNCHANGED <<sortVars, chunkedVars>>

\* Lines 108-111: the whole of one shuffled file is appended to the final file.
FinalAppend ==
    /\ pc = "final_loop" /\ fi <= Len(shuffled_file_names)
    /\ fs' = Write(fs, FINAL_FILE_NAME, fs[shuffled_file_names[fi]])
    /\ opened' = opened \cup {shuffled_file_names[fi]}
    /\ consumed' = consumed \cup {shuffled_file_names[fi]}
    /\ fi' = fi + 1
    /\ UNCHANGED <<pc, err, start_number, stop_number, split_file_number,
                   number, files, shuffled_file_names, workers, tasks>>
    /\ UNCHANGED <<sortVars, chunkedVars>>

\* Line 113: every shuffled file is removed.
RemoveShuffled ==
    /\ pc = "final_loop" /\ fi > Len(shuffled_file_names)
    /\ fs' = Remove(fs, shuffled_file_names)
    /\ pc' = "gen_done"
    /\ UNCHANGED <<opened, consumed, err>>
    /\ UNCHANGED <<genVars, sortVars, chunkedVars>>

NextGen ==
    \/ GenOpen
    \/ GenWrite
    \/ GenClose
    \/ PoolCreate
    \/ ApplyAsync
    \/ WorkerShuffle
    \/ WorkerWrite
    \/ ResultGet
    \/ RemoveRaw
    \/ FinalOpen
    \/ FinalAppend
    \/ RemoveShuffled

SpecGen == InitGen /\ [][NextGen]_vars

----------------------------------------------------------------------------
\* utils.py

Min(a, b) == IF a < b THEN a ELSE b

\* One element more than asked for.
isliceOneMore(s, pos, n) == SubSeq(s, pos + 1, Min(pos + n + 1, Len(s)))

\* Line 16: list(islice(iterable, chunk_size)) on the shared iterator, which
\* has consumed pos elements of s: the next n elements, fewer at the end.
islice(s, pos, n) == SubSeq(s, pos + 1, Min(pos + n, Len(s)))

Inputs == UNION {[1..n -> {1, 2}] : n \in 0..MaxInputLen}

\* Lines 12-18: chunked(iterable, chunk_size) has returned its iterator.
InitChunked ==
    /\ pc = "chunked"
    /\ fs = NoFiles /\ opened = {} /\ consumed = {} /\ err = "none"
    /\ iterable \in Inputs
    /\ chunk_size \in 0..MaxBatch
    /\ it_pos = 0 /\ batches = <<>> /\ exhausted = FALSE /\ stops = 0
    /\ SortIdle /\ GenIdle

\* next() on the iterator: wrapper returns a non-empty list, which is yielded.
NextBatch ==
    /\ pc = "chunked" /\ ~exhausted
    /\ LET b == islice(iterable, it_pos, chunk_size)
       IN /\ b # <<>>
          /\ batches' = Append(batches, b)
          /\ it_pos' = it_pos + Len(b)
    /\ UNCHANGED <<iterable, chunk_size, exhausted, stops>>
    /\ UNCHANGED <<sharedVars, sortVars, genVars>>

\* next() on the iterator: wrapper returns [], the sentinel: StopIteration.
NextSentinel ==
    /\ pc = "chunked" /\ ~exhausted
    /\ islice(iterable, it_pos, chunk_size) = <<>>
    /\ exhausted' = TRUE
    /\ stops' = stops + 1
    /\ UNCHANGED <<iterable, chunk_size, it_pos, batches>>
    /\ UNCHANGED <<sharedVars, sortVars, genVars>>

\* next() after the sentinel: StopIteration again, wrapper is not called.
NextAfterStop ==
    /\ pc = "chunked" /\ exhausted /\ stops < MaxStops
    /\ stops' = stops + 1
    /\ UNCHANGED <<iterable, chunk_size, it_pos, batches, exhausted>>
    /\ UNCHANGED <<sharedVars, sortVars, genVars>>

NextChunked ==
    \/ NextBatch
    \/ NextSentinel
    \/ NextAfterStop

SpecChunked == InitChunked /\ [][NextChunked]_vars

----------------------------------------------------------------------------
\* Either script, or a use of chunked.
Init == InitSort \/ InitGen \/ InitChunked

Next == NextSort \/ NextGen \/ NextChunked

Spec == Init /\ [][Next]_vars

----------------------------------------------------------------------------
\* Vocabulary of the properties.

SourceLines == readlines(fs[FILE_NAME_WITH_NUMBERS_TO_SORT])

Count(x, s) == Cardinality({k \in DOMAIN s : s[k] = x})

IsPermutation(s, t) ==
    /\ Len(s) = Len(t)
    /\ \A x \in Range(s) \cup Range(t) : Count(x, s) = Count(x, t)

RECURSIVE Flatten(_)
Flatten(ss) == IF ss = <<>> THEN <<>> ELSE Head(ss) \o Flatten(Tail(ss))

CeilDiv(a, b) == (a + b - 1) \div b

\* The integers of [start_number, stop_number), ascending.
RangeSeq ==
    [k \in 1..(stop_number - start_number) |-> start_number + k - 1]

\* The number a decimal digit string stands for.
RECURSIVE Decimal(_)
Decimal(ds) ==
    IF ds = <<>> THEN 0
    ELSE 10 * Decimal(SubSeq(ds, 1, Len(ds) - 1)) + (ds[Len(ds)] - ZERO)

IsRecord(line) ==
    /\ Len(line) >= 3
    /\ line[1] = PLUS /\ line[Len(line)] = NL
    /\ \A k \in 2..(Len(line) - 1) : line[k] \in ZERO..(ZERO + 9)
    /\ (Len(line) > 3 => line[2] # ZERO)

NumberOf(line) == Decimal(SubSeq(line, 2, Len(line) - 1))

ValidRange == start_number < stop_number /\ split_file_number > 0

InSplit == pc \in {"split_iter", "split_check", "split_flush"}

----------------------------------------------------------------------------
\* Properties of sort_random_phone_numbers.py (SpecSort).

\* C1: with a chunk size > 0, the resulting file's lines are the lines a
\* single in-memory sort of the whole source writes.
C1_ExternalSortIsInMemorySort ==
    (pc = "sort_done" /\ lines_per_chunk > 0) =>
        readlines(fs[RESULTING_FILE_NAME]) =
            readlines(writelines(sort(SourceLines)))

\* C4: a source of L lines split with chunk size C > 0 yields ceil(L / C)
\* chunks, whose lines together are exactly the lines of the source.
C4_CeilChunksHoldEveryLine ==
    (pc = "merge_open" /\ lines_per_chunk > 0) =>
        /\ Len(chunk_file_names) = CeilDiv(Len(SourceLines), lines_per_chunk)
        /\ IsPermutation(
               Flatten([k \in DOMAIN chunk_file_names |->
                           readlines(fs[chunk_file_names[k]])]),
               SourceLines)

\* C10: with a chunk size C > 0 the split reads the source front to back,
\* the buffer holds the lines read since the last chunk and never more than
\* C of them, and it is empty right after a chunk is written.
C10_BufferAtMostChunk ==
    (InSplit /\ lines_per_chunk > 0) =>
        /\ Len(lines) <= lines_per_chunk
        /\ rest = SubSeq(SourceLines, i + 1, Len(SourceLines))
        /\ lines = SubSeq(SourceLines, i - Len(lines) + 1, i)
        /\ (pc = "split_iter" => Len(lines) = i % lines_per_chunk)
        /\ Len(chunk_file_names) =
               (IF pc = "split_iter" THEN i ELSE i - 1) \div lines_per_chunk

\* C10 witness: a second chunk is about to be written from a full buffer of
\* two lines.
C10_Witness ==
    /\ pc = "split_flush" /\ lines_per_chunk = 2 /\ Len(lines) = 2
    /\ Len(chunk_file_names) = 1

----------------------------------------------------------------------------
\* Properties of generate_random_phone_numbers.py (SpecGen).

\* C2: when the emitter has returned, for a range with start < stop and
\* N > 0 files, file k (from 0) holds exactly the records of the numbers
\* of the range with remainder k modulo N, ascending; so every number of
\* the range is in exactly one file, once, and nothing else is.
C2_PartitionsCoverRange ==
    (pc = "pool" /\ ValidRange) =>
        \A k \in 0..(split_file_number - 1) :
            LET ls == readlines(fs[RAW_FILE_NAMES[k + 1]])
                InFile(v) == v % split_file_number = k
                want == SelectSeq(RangeSeq, InFile)
            IN /\ Len(ls) = Len(want)
               /\ \A j \in DOMAIN ls : IsRecord(ls[j]) /\ NumberOf(ls[j]) = want[j]

\* C2 witness: three files, a range of four numbers from 8 to 11.
C2_Witness ==
    /\ pc = "pool" /\ split_file_number = 3
    /\ start_number = 8 /\ stop_number = 12
    /\ Len(readlines(fs[RAW_FILE_NAMES[3]])) = 2

\* C3: every shuffled file is a permutation of the raw file it was read
\* from, and the final file of a finished run holds the record of every
\* number of the range exactly once and nothing else.
C3_FinalIsPermutationOfRange ==
    /\ \A k \in DOMAIN RAW_FILE_NAMES :
          LET raw == RAW_FILE_NAMES[k]
          IN (raw \in DOMAIN fs /\ ShuffledName(raw) \in DOMAIN fs) =>
                 IsPermutation(readlines(fs[ShuffledName(raw)]),
                               readlines(fs[raw]))
    /\ pc = "gen_done" =>
          LET ls == readlines(fs[FINAL_FILE_NAME])
          IN /\ \A j \in DOMAIN ls : IsRecord(ls[j])
             /\ IsPermutation([j \in DOMAIN ls |-> NumberOf(ls[j])], RangeSeq)

\* C3 witness: a finished run over four numbers and two files whose final
\* file is not in ascending order.
C3_Witness ==
    /\ pc = "gen_done" /\ split_file_number = 2
    /\ stop_number - start_number = 4
    /\ LET ls == readlines(fs[FINAL_FILE_NAME])
       IN Len(ls) = 4 /\ NumberOf(ls[1]) > NumberOf(ls[2])

\* C8: no worker shuffles more than one file, and the worker that shuffled
\* a file is gone by the time another file is being shuffled.
C8_OneWorkerPerFile ==
    \A a \in DOMAIN tasks, b \in DOMAIN tasks :
        (a # b /\ tasks[a].state = "finished" /\ tasks[b].worker # 0) =>
            /\ tasks[a].worker # tasks[b].worker
            /\ tasks[a].worker \notin workers

\* C9: at most one file is in the pool unfinished, and only while the main
\* process waits for it; each time the main process is about to submit,
\* every file submitted so far is finished and its shuffled file written;
\* the names collected are those of the input files, in their order.
C9_OneFileAtATime ==
    /\ Cardinality({n \in DOMAIN tasks : tasks[n].state # "finished"}) <= 1
    /\ \A n \in DOMAIN tasks :
          tasks[n].state # "finished" => pc = "get" /\ n = RAW_FILE_NAMES[fi]
    /\ pc \in {"submit", "get"} =>
          /\ DOMAIN tasks =
                 {RAW_FILE_NAMES[k] :
                     k \in 1..(IF pc = "get" THEN fi ELSE fi - 1)}
          /\ \A k \in 1..(fi - 1) :
                 /\ tasks[RAW_FILE_NAMES[k]].state = "finished"
                 /\ ShuffledName(RAW_FILE_NAMES[k]) \in DOMAIN fs
          /\ shuffled_file_names =
                 [k \in 1..(fi - 1) |-> ShuffledName(RAW_FILE_NAMES[k])]

\* C9 witness: the second of three files is being shuffled while the main
\* process waits.
C9_Witness ==
    /\ pc = "get" /\ fi = 2 /\ split_file_number = 3
    /\ tasks[RAW_FILE_NAMES[2]].state = "shuffled"
    /\ Len(tasks[RAW_FILE_NAMES[2]].lines) >= 1

----------------------------------------------------------------------------
\* Properties of utils.py (SpecChunked).

\* C6: for a batch size B > 0 the batches yielded so far, one after the
\* other, are the input consumed so far; each is non-empty and at most B
\* long, all but the last exactly B; a short last batch and StopIteration
\* come only with the input used up, after which nothing more is yielded.
C6_BatchesPartitionInput ==
    chunk_size > 0 =>
        /\ Flatten(batches) = SubSeq(iterable, 1, it_pos)
        /\ \A k \in DOMAIN batches :
              /\ batches[k] # <<>>
              /\ Len(batches[k]) <= chunk_size
              /\ (k < Len(batches) => Len(batches[k]) = chunk_size)
              /\ (Len(batches[k]) < chunk_size => it_pos = Len(iterable))
        /\ (stops > 0 => exhausted)
        /\ (exhausted => Flatten(batches) = iterable)

\* C6 witness: a full batch, then a short one, then StopIteration twice.
C6_Witness ==
    /\ pc = "chunked" /\ chunk_size = 2 /\ Len(iterable) = 3
    /\ Len(batches) = 2 /\ Len(batches[2]) = 1
    /\ stops = 2

----------------------------------------------------------------------------
\* Properties of both scripts (Spec).

SortConfigError == lines_per_chunk <= 0

GenConfigError == start_number >= stop_number \/ split_file_number <= 0

InSort ==
    \/ InSplit
    \/ pc \in {"split_open", "merge_open", "merge_write", "merge_close",
               "remove_chunks", "sort_done", "sort_error"}

InGen ==
    pc \in {"gen_open", "gen_loop", "pool", "submit", "get", "final_open",
            "final_loop", "gen_done", "gen_error"}

\* C5: a script that has finished without error leaves its one output file
\* and none of the files it created on the way, and a file the run created
\* is gone only after its reader has read it to the end.
C5_IntermediatesRemovedAfterUse ==
    /\ pc = "gen_done" => DOMAIN fs = {FINAL_FILE_NAME}
    /\ pc = "sort_done" =>
          DOMAIN fs = {FILE_NAME_WITH_NUMBERS_TO_SORT, RESULTING_FILE_NAME}
    /\ \A n \in opened \ DOMAIN fs : n \in consumed

\* C5 witness: the generator has finished after shuffling two files.
C5_Witness ==
    /\ pc = "gen_done" /\ Len(shuffled_file_names) = 2
    /\ start_number < stop_number

\* C7: with a configuration error (chunk size <= 0, start >= stop, file
\* count <= 0) a script opens, creates or removes no file and does not
\* finish normally.
C7_ConfigErrorBeforeIO ==
    ((InSort /\ SortConfigError) \/ (InGen /\ GenConfigError)) =>
        /\ opened = {}
        /\ pc \notin {"sort_done", "gen_done"}

====
